---- MODULE Spec2Model ----
(***************************************************************************)
(* GCRBot WebExtractor (src/src/gcrbot/WebExtractor.py): the crawl        *)
(* controller extract_site_content with the page extractor, the link      *)
(* scorer, the content scorer and the result formatter it calls.          *)
(* The components are also run on their own, and with them the tool call  *)
(* limiter of src/src/gcrbot/tools_core_optimized.py.                      *)
(*                                                                         *)
(* Text is abstracted to what the code reads of it: a content is its      *)
(* length, the number of occurrences of each query word in it and whether *)
(* it carries the error mark; a URL is a name with the attributes the     *)
(* code tests (host, ".pdf" suffix, exclusion term, words of the last     *)
(* path segment).  The network answers every request nondeterministically.*)
(***************************************************************************)
EXTENDS Integers, Sequences, FiniteSets, TLC

\* ------------------------------------------------------------------ bounds
MaxPagesArg == 4       \* max_pages is drawn from 0..MaxPagesArg
MaxAnchors == 9        \* anchors on the page read by the link scorer
MaxOcc == 5            \* occurrences of a word in a content given to the scorer
MaxQueryLen == 3       \* words of a query given to the scorer
MaxLinkAnchors == 3    \* anchors on a page given to the link scorer on its own
MaxPdfPages == 3       \* pages of a PDF given to the PDF extractor on its own
MaxConcurrentPages == 2  \* max_pages of the calls made at the same time
MaxPageFileLinks == 4  \* file links on a page given to the page extractor on its own
MaxLines == 5          \* lines of a content given to _clean_content on its own
MaxTicks == 3          \* times the clock advances between calls of the tools

\* ------------------------------------------------------- program constants
FAST_PATH_SCORE == 60
GOOD_MATCH_SCORE == 70
ACCEPTABLE_SCORE == 50
ACCEPTABLE_PAGES == 4
MAX_PDF_EXTRACT == 3
MAX_RESULT_PDFS == 3
LOW_CONTENT_CHARS == 200     \* if total_chars < 200
PAGE_BANNER_LEN == 131       \* f"{'='*60}\n📄 PAGE {page_num}\n{'='*60}\n"
EMPTY_PAGE_LEN == 155        \* the banner and "⚠️ [Page vide ou image]\n"
MIN_PAGE_TEXT == 10          \* if len(page_text.strip()) > 10
MIN_USABLE_PAGE == 20        \* all(len(p.strip()) < 20 for p in pages_content)
MIN_FULL_TEXT == 20          \* if not full_text or len(full_text.strip()) < 20
DEDUP_MIN_LEN == 50          \* if len(line_stripped) > 50
KEY_LEN == 100               \* key = line_stripped[:100].lower()
COUNTER_RESET_INTERVAL == 300  \* _COUNTER_RESET_INTERVAL

\* ------------------------------------------------------------------ helpers
Min(a, b) == IF a < b THEN a ELSE b

SeqToSet(s) == {s[i] : i \in 1..Len(s)}

Contains(s, x) == \E i \in 1..Len(s) : s[i] = x

\* -------------------------------------------------------------------- words
\* Query words by identity; word 3 is a short word (two characters).
Words == {1, 2, 3}

WordLen == [w \in Words |-> IF w = 3 THEN 2 ELSE 6]

NoOcc == [w \in Words |-> 0]

\* --------------------------------------------------------------------- URLs
\* "s" start page; "a".."e" internal pages; "p" an internal ".pdf" file;
\* "w" an internal ".docx" file; "login" an internal URL holding an
\* exclusion term; "ext" a URL of another host; "sq" the start page's URL
\* followed by a query string; "cf" the URL of "c" followed by a fragment.
Urls == {"s", "a", "b", "c", "d", "e", "p", "w", "login", "ext", "sq", "cf"}

StartUrls == {"s"}

PdfUrls == {"p"}

\* Further PDF links, met only on a page that embeds several of them
PagePdfUrls == PdfUrls \cup {"p2", "p3", "p4"}

\* url.lower().endswith(".pdf")
IsPdfUrl(u) == u \in PagePdfUrls

\* urlparse(u).netloc
Netloc(u) == IF u = "ext" THEN "other.example" ELSE "site.example"

\* full_url.split("#")[0].split("?")[0]
CleanUrl(u) ==
    CASE u = "sq" -> "s"
      [] u = "cf" -> "c"
      [] OTHER -> u

\* Faulty variant, for comparison: 'login' is missing from the excluded terms.
HasExcludedTermWithoutLogin(u) == FALSE

\* any(x in url_lower for x in ['login','contact','privacy','cookie','footer'])
HasExcludedTerm(u) == u = "login"

\* the query words occurring in url_lower.split('/')[-1]
PathWords(u) ==
    CASE u = "b" -> {1}
      [] u = "c" -> {1, 2}
      [] u = "d" -> {2}
      [] OTHER -> {}

\* ----------------------------------------------------------------- contents
EmptyContent == [len |-> 0, occ |-> NoOcc, mark |-> FALSE]

IsEmpty(c) == c.len = 0

\* HTML texts a page may carry (_extract_text's result)
Texts ==
    { EmptyContent,
      [len |-> 100, occ |-> NoOcc, mark |-> FALSE],
      [len |-> 600, occ |-> [w \in Words |-> IF w = 1 THEN 2 ELSE 0], mark |-> FALSE],
      [len |-> 600, occ |-> [w \in Words |-> IF w = 1 THEN 2 ELSE IF w = 2 THEN 5 ELSE 0],
       mark |-> FALSE] }

\* c1 followed by sep separator characters and c2
Concat(c1, sep, c2) ==
    [len |-> c1.len + sep + c2.len,
     occ |-> [w \in Words |-> c1.occ[w] + c2.occ[w]],
     mark |-> c1.mark \/ c2.mark]

\* ------------------------------------------------------------ ContentScorer
\* query_words = [w.strip() for w in query_lower.split() if len(w.strip()) > 2]
QueryWords(query) == SelectSeq(query, LAMBDA w : WordLen[w] > 2)

\* Faulty variant, for comparison: the points of a word are not capped at 25.
RECURSIVE KeywordPointsNoCap(_, _, _)
KeywordPointsNoCap(content, qw, i) ==
    IF i > Len(qw) THEN 0
    ELSE content.occ[qw[i]] * 8 + KeywordPointsNoCap(content, qw, i + 1)

RECURSIVE KeywordPoints(_, _, _)
KeywordPoints(content, qw, i) ==
    IF i > Len(qw) THEN 0
    ELSE (IF content.occ[qw[i]] > 0 THEN Min(content.occ[qw[i]] * 8, 25) ELSE 0)
         + KeywordPoints(content, qw, i + 1)

\* The points the keyword loop has added for each word once it has gone
\* through query_words[i..]: every entry of the list adds min(count * 8, 25)
\* for its word.
RECURSIVE PointsByWord(_, _, _)
PointsByWord(content, qw, i) ==
    IF i > Len(qw) THEN [w \in Words |-> 0]
    ELSE LET rest == PointsByWord(content, qw, i + 1) IN
         [rest EXCEPT ![qw[i]] = @ + (IF content.occ[qw[i]] > 0
                                       THEN Min(content.occ[qw[i]] * 8, 25) ELSE 0)]

MatchedWords(content, qw) == Cardinality({i \in 1..Len(qw) : content.occ[qw[i]] > 0})

\* Faulty variant, for comparison: the two bonuses are swapped.
RichnessBonusSwapped(content) ==
    IF content.len >= 500 THEN 5 ELSE IF content.len >= 200 THEN 10 ELSE 0

RichnessBonus(content) ==
    IF content.len >= 500 THEN 10 ELSE IF content.len >= 200 THEN 5 ELSE 0

\* Faulty variant, for comparison: the final min(score, 100) is missing.
SemanticMatchScoreNoCap(content, query) ==
    IF IsEmpty(content) \/ query = <<>>
    THEN (IF ~IsEmpty(content) /\ content.len > 200 THEN 20 ELSE 0)
    ELSE LET qw == QueryWords(query) IN
         IF qw = <<>>
         THEN (IF content.len > 200 THEN 20 ELSE 0)
         ELSE KeywordPoints(content, qw, 1)
                + ((MatchedWords(content, qw) * 30) \div Len(qw))
                + RichnessBonus(content)

\* _semantic_match_score(content, query); query is the joined keyword list
SemanticMatchScore(content, query) ==
    IF IsEmpty(content) \/ query = <<>>
    THEN (IF ~IsEmpty(content) /\ content.len > 200 THEN 20 ELSE 0)
    ELSE LET qw == QueryWords(query) IN
         IF qw = <<>>
         THEN (IF content.len > 200 THEN 20 ELSE 0)
         ELSE Min(KeywordPoints(content, qw, 1)
                    + ((MatchedWords(content, qw) * 30) \div Len(qw))
                    + RichnessBonus(content),
                  100)

\* --------------------------------------------------------------- LinkScorer
\* One <a href> of a page: the URL the href resolves to and is cleaned to
\* (urljoin, then query string and fragment stripped), whether the raw href
\* starts with "#", "mailto:" or "javascript:", the query words in the link
\* text, and the number of important_words found in link text + path.
Anchor(u, sp, t, n) == [url |-> u, special |-> sp, text |-> t, imp |-> n]

AnchorPool ==
    << Anchor("e", TRUE, {1}, 0),
       Anchor("s", FALSE, {1, 2}, 1),
       Anchor("p", FALSE, {1, 2}, 2),
       Anchor("ext", FALSE, {1, 2}, 2),
       Anchor("c", FALSE, {1, 2}, 1),
       Anchor("a", FALSE, {1}, 0),
       Anchor("a", FALSE, {2}, 3),
       Anchor("login", FALSE, {1}, 1),
       Anchor("b", FALSE, {}, 1),
       Anchor("e", FALSE, {3}, 0),
       Anchor("d", FALSE, {2}, 2) >>

\* soup.find_all("a", href=True) of a fetched page: the first anchors of the pool
AnchorPages ==
    { SubSeq(AnchorPool, 1, n) : n \in 0..Min(MaxAnchors, Len(AnchorPool)) }

\* query_words = [w.lower() for w in query.split() if len(w) > 2]
LinkQueryWords(query) == SelectSeq(query, LAMBDA w : WordLen[w] > 2)

\* Faulty variant, for comparison: a word in the URL path earns no extra points.
RECURSIVE WordPointsNoPathBonus(_, _, _)
WordPointsNoPathBonus(anchor, qw, i) ==
    IF i > Len(qw) THEN 0
    ELSE (IF qw[i] \in (anchor.text \cup PathWords(anchor.url)) THEN 30 ELSE 0)
         + WordPointsNoPathBonus(anchor, qw, i + 1)

RECURSIVE WordPoints(_, _, _)
WordPoints(anchor, qw, i) ==
    IF i > Len(qw) THEN 0
    ELSE (IF qw[i] \in (anchor.text \cup PathWords(anchor.url)) THEN 30 ELSE 0)
         + (IF qw[i] \in PathWords(anchor.url) THEN 20 ELSE 0)
         + WordPoints(anchor, qw, i + 1)

LinkScore(anchor, query) ==
    WordPoints(anchor, LinkQueryWords(query), 1) + 10 * anchor.imp

\* the loop over the anchors: scored_links and seen_urls
RECURSIVE ScanAnchors(_, _, _, _, _, _)
ScanAnchors(anchors, i, base_url, query, seen_urls, scored_links) ==
    IF i > Len(anchors) THEN scored_links
    ELSE LET a == anchors[i]
             clean_url == CleanUrl(a.url)
             score == LinkScore([a EXCEPT !.url = clean_url], query)
         IN
         IF a.special \/ Netloc(a.url) # Netloc(base_url)
         THEN ScanAnchors(anchors, i + 1, base_url, query, seen_urls, scored_links)
         ELSE IF clean_url \in seen_urls \/ clean_url = base_url
         THEN ScanAnchors(anchors, i + 1, base_url, query, seen_urls, scored_links)
         ELSE IF HasExcludedTerm(clean_url)
         THEN ScanAnchors(anchors, i + 1, base_url, query,
                          seen_urls \cup {clean_url}, scored_links)
         ELSE ScanAnchors(anchors, i + 1, base_url, query, seen_urls \cup {clean_url},
                          IF score > 0
                          THEN Append(scored_links, <<clean_url, score>>)
                          ELSE scored_links)

\* Faulty variant, for comparison: a link goes before the links of equal score.
InsertByScoreUnstable(sorted, x) ==
    LET k == Cardinality({i \in 1..Len(sorted) : sorted[i][2] > x[2]}) IN
    SubSeq(sorted, 1, k) \o <<x>> \o SubSeq(sorted, k + 1, Len(sorted))

\* scored_links.sort(key=lambda x: x[1], reverse=True): stable
InsertByScore(sorted, x) ==
    LET k == Cardinality({i \in 1..Len(sorted) : sorted[i][2] >= x[2]}) IN
    SubSeq(sorted, 1, k) \o <<x>> \o SubSeq(sorted, k + 1, Len(sorted))

RECURSIVE SortByScore(_)
SortByScore(links) ==
    IF links = <<>> THEN <<>>
    ELSE InsertByScore(SortByScore(SubSeq(links, 1, Len(links) - 1)), links[Len(links)])

\* The answers of the network to session.get(base_url) in the link scorer
LinkResponses ==
    { [ok |-> FALSE, anchors |-> <<>>] } \cup
    { [ok |-> TRUE, anchors |-> a] : a \in AnchorPages }

\* _get_scored_internal_links(base_url, query)
GetScoredInternalLinks(base_url, query, resp) ==
    IF ~resp.ok THEN <<>>
    ELSE SortByScore(ScanAnchors(resp.anchors, 1, base_url, query, {}, <<>>))

\* ------------------------------------------------------------- PdfExtractor
\* What _extract_pdf_from_url_advanced returns for one download: a tagged
\* failure (download error, not a PDF, unextractable, exception), or the
\* document wrapped in its header and closing marker.
PdfOutcomes == {"error", "doc"}

PdfErrorContent == [len |-> 120, occ |-> NoOcc, mark |-> TRUE]

PdfDocContent ==
    [len |-> 700, occ |-> [w \in Words |-> IF w = 1 THEN 4 ELSE 0], mark |-> FALSE]

ExtractPdfFromUrlAdvanced(url, outcome) ==
    IF outcome = "doc" THEN PdfDocContent ELSE PdfErrorContent

\* f"[PDF détecté : {os.path.basename(url)}]"
PdfDetectedNote == [len |-> 30, occ |-> NoOcc, mark |-> FALSE]

\* ------------------------------------------------- _extract_single_page
\* An answer of the network to session.get(url): a failure (exception or
\* non-2xx), a response whose Content-Type names a PDF, or an HTML page with
\* its text and its file links; direct and pdfOut are the outcomes of the
\* PDF downloads the extraction may go on to make (none is made, and the
\* outcomes are left out, without extract_pdf_content).
FileLinkChoices == { <<>>, <<"w", "p">> }

PageResponses(extract) ==
    { [kind |-> "fail", text |-> EmptyContent, file_links |-> <<>>,
       direct |-> "error", pdfOut |-> [u \in PdfUrls |-> "error"]] } \cup
    { [kind |-> "pdf", text |-> EmptyContent, file_links |-> <<>>,
       direct |-> d, pdfOut |-> [u \in PdfUrls |-> "error"]] :
        d \in IF extract THEN PdfOutcomes ELSE {"error"} } \cup
    { [kind |-> "html", text |-> t, file_links |-> f, direct |-> "error", pdfOut |-> o] :
        t \in Texts, f \in FileLinkChoices,
        o \in IF extract THEN [PdfUrls -> PdfOutcomes] ELSE {[u \in PdfUrls |-> "error"]} }

\* pdf_content and "❌" not in pdf_content and len(pdf_content) > 100
PdfUsable(c) == ~IsEmpty(c) /\ ~c.mark /\ c.len > 100

\* the loop over file_links: pdf_links, pdf_extracted_count, pdf_contents,
\* and the URLs requested by the downloads (reqs)
RECURSIVE EmbeddedPdfs(_, _, _, _, _)
EmbeddedPdfs(file_links, i, extract_pdf_content, pdfOut, acc) ==
    IF i > Len(file_links) THEN acc
    ELSE LET link == file_links[i] IN
         IF IsPdfUrl(link) /\ ~Contains(acc.pdf_links, link)
         THEN LET acc1 == [acc EXCEPT !.pdf_links = Append(@, link)] IN
              IF extract_pdf_content /\ acc.count < MAX_PDF_EXTRACT
              THEN LET c == ExtractPdfFromUrlAdvanced(link, pdfOut[link])
                       acc2 == [acc1 EXCEPT !.reqs = Append(@, link)]
                   IN IF PdfUsable(c)
                      THEN EmbeddedPdfs(file_links, i + 1, extract_pdf_content, pdfOut,
                                        [acc2 EXCEPT !.docs = Append(@, c),
                                                     !.count = @ + 1])
                      ELSE EmbeddedPdfs(file_links, i + 1, extract_pdf_content, pdfOut, acc2)
              ELSE EmbeddedPdfs(file_links, i + 1, extract_pdf_content, pdfOut, acc1)
         ELSE EmbeddedPdfs(file_links, i + 1, extract_pdf_content, pdfOut, acc)

\* "\n\n".join(pdf_contents)
RECURSIVE JoinContents(_, _)
JoinContents(docs, i) ==
    IF i > Len(docs) THEN EmptyContent
    ELSE IF i = Len(docs) THEN docs[i]
    ELSE Concat(docs[i], 2, JoinContents(docs, i + 1))

\* the text with the extracted PDFs, or the list of PDF links, appended
PageText(text, emb, extract_pdf_content) ==
    IF emb.docs # <<>>
    THEN Concat(text, 153, JoinContents(emb.docs, 1))
    ELSE IF extract_pdf_content /\ emb.pdf_links # <<>>
    THEN [text EXCEPT !.len = @ + 171 + 40 * Len(emb.pdf_links)]
    ELSE text

\* _extract_single_page(url, extract_pdf_content): the content returned, the
\* extractor's fields afterwards and the URLs requested, in order
ExtractSinglePage(url, extract_pdf_content, visited, pdfs, resp) ==
    IF url \in visited
    THEN [content |-> EmptyContent, visited_urls |-> visited, pdf_links |-> pdfs,
          reqs |-> <<>>]
    ELSE IF resp.kind = "fail"
    THEN [content |-> EmptyContent, visited_urls |-> visited \cup {url},
          pdf_links |-> pdfs, reqs |-> <<url>>]
    ELSE IF resp.kind = "pdf" \/ IsPdfUrl(url)
    THEN [content |-> IF extract_pdf_content
                      THEN ExtractPdfFromUrlAdvanced(url, resp.direct)
                      ELSE PdfDetectedNote,
          visited_urls |-> visited \cup {url},
          pdf_links |-> IF Contains(pdfs, url) THEN pdfs ELSE Append(pdfs, url),
          reqs |-> IF extract_pdf_content THEN <<url, url>> ELSE <<url>>]
    ELSE LET emb == EmbeddedPdfs(resp.file_links, 1, extract_pdf_content, resp.pdfOut,
                                 [pdf_links |-> pdfs, count |-> 0, docs |-> <<>>,
                                  reqs |-> <<>>])
         IN [content |-> PageText(resp.text, emb, extract_pdf_content),
             visited_urls |-> visited \cup {url},
             pdf_links |-> emb.pdf_links,
             reqs |-> <<url>> \o emb.reqs]

\* ---------------------------------------------------------- ResultFormatter
\* list(dict.fromkeys(pdf_links))
RECURSIVE Dedup(_)
Dedup(s) ==
    IF s = <<>> THEN <<>>
    ELSE LET d == Dedup(SubSeq(s, 1, Len(s) - 1)) IN
         IF Contains(d, s[Len(s)]) THEN d ELSE Append(d, s[Len(s)])

\* Faulty variant, for comparison: an empty content is formatted like any other.
FormatResultNoEmptyCheck(content, url, score, pdfs) ==
    [notFound |-> FALSE, content |-> content, url |-> url,
     pdfs |-> SubSeq(pdfs, 1, Min(MAX_RESULT_PDFS, Len(pdfs)))]

\* Faulty variant, for comparison: a result formatted with score 0 is reported
\* as "not found" even when the page has content.
FormatResultNotFoundOnZeroScore(content, url, score, pdfs) ==
    IF IsEmpty(content) \/ score = 0
    THEN [notFound |-> TRUE, content |-> EmptyContent, url |-> url, pdfs |-> <<>>]
    ELSE [notFound |-> FALSE, content |-> content, url |-> url,
          pdfs |-> SubSeq(Dedup(pdfs), 1, Min(MAX_RESULT_PDFS, Len(Dedup(pdfs))))]

\* _format_result(content, url, score): "not found" with the URL for an empty
\* content; otherwise the page whose content is cleaned, truncated and
\* returned, its source URL, and the first PDF links of the session.
FormatResult(content, url, score, pdfs) ==
    IF IsEmpty(content)
    THEN [notFound |-> TRUE, content |-> EmptyContent, url |-> url, pdfs |-> <<>>]
    ELSE [notFound |-> FALSE, content |-> content, url |-> url,
          pdfs |-> SubSeq(Dedup(pdfs), 1, Min(MAX_RESULT_PDFS, Len(Dedup(pdfs))))]

\* ----------------------------------------------------------- CrawlController
VARIABLES
    visited_urls,        \* self.visited_urls
    pdf_links,           \* self.pdf_links
    pc,                  \* idle, or where extract_site_content stands: main, links,
                         \* loop, returned
    url, max_pages, deep_crawl, extract_pdf_content, priority_keywords,
    main_content,
    internal_links,
    idx,                 \* position of the for loop in internal_links[:max_pages]
    best_content, best_score, best_url,
    pages_explored,
    result,              \* what the last call returned
    exitKind,            \* the return statement the last call left by
    reqCount,            \* observer: requests made per URL in this session
    linkScoring,         \* observer: _get_scored_internal_links was invoked
    startReached,        \* observer: a request to the start URL succeeded
    loopFetches,         \* observer: pages requested by the exploration loop
    last,                \* observer: the latest iteration of the loop
    hist,                \* observer: start page and explored non-empty pages
    failedCand,          \* observer: candidates whose fetch failed
    sessVisited,         \* observer: URLs passed to _extract_single_page
    sessPdfs,            \* observer: PDF links met in this session's responses
    prevHadPdf           \* observer: an earlier call ended with PDF links

extractorVars == <<visited_urls, pdf_links>>

argVars == <<url, max_pages, deep_crawl, extract_pdf_content, priority_keywords>>

localVars == <<main_content, internal_links, idx, best_content, best_score, best_url,
               pages_explored>>

observerVars == <<reqCount, linkScoring, startReached, loopFetches, last, hist,
                  failedCand, sessVisited, sessPdfs, prevHadPdf>>

\* The components exercised on their own (their callers hold no state of theirs)
VARIABLES
    scorer,              \* a call of _semantic_match_score: its arguments and result
    linker,              \* a call of _get_scored_internal_links: its arguments, the
                         \* page the network answered with, and the list returned
    pdfx,                \* a call of _extract_pdf_from_url_advanced: where it stands,
                         \* the temporary file, pages_content, and what it returned
    frames               \* the frames of the extract_site_content calls that callers
                         \* of get_extractor() make at the same time on the one
                         \* extractor: arguments, locals, position, result

VARIABLES
    pager,               \* a call of _extract_single_page on an HTML page that embeds
                         \* PDF links: the page, the outcome of each download, and
                         \* what the call returned
    cleaner,             \* _clean_content applied to a content, then to its own output
    limiter              \* tools_core_optimized: _tool_call_counter,
                         \* _last_reset_time, the clock, and what the calls did

toolVars == <<pager, cleaner, limiter>>

componentVars == <<scorer, linker, pdfx, frames, toolVars>>

vars == <<extractorVars, pc, argVars, localVars, result, exitKind, observerVars,
          componentVars>>

Queries == { <<>>, <<1, 3>>, <<1, 2>> }

NoResult == [notFound |-> TRUE, content |-> EmptyContent, url |-> "s", pdfs |-> <<>>]

NoBest == [content |-> EmptyContent, url |-> "s", score |-> 0]

NoLast ==
    [fetched |-> FALSE, failed |-> FALSE, scored |-> FALSE, url |-> "s",
     content |-> EmptyContent, total |-> 0, bestBefore |-> NoBest, pagesBefore |-> 0]

NoRequests == [u \in Urls |-> 0]

\* search_query = " ".join(priority_keywords) if priority_keywords else ""
SearchQuery(keywords) == keywords

\* Faulty variant, for comparison: the visited set is not cleared at the start of a call.
ResetSessionKeepsVisited(visited, pdfs) == [visited_urls |-> visited, pdf_links |-> <<>>]

\* self.visited_urls.clear(); self.pdf_links.clear()
ResetSession(visited, pdfs) == [visited_urls |-> {}, pdf_links |-> <<>>]

\* Faulty variant, for comparison: the fast path asks for a score of 90.
FastPathAt90(content, match_score) == ~IsEmpty(content) /\ match_score >= 90

\* if main_content: ... if match_score >= 60: return
FastPath(content, match_score) == ~IsEmpty(content) /\ match_score >= FAST_PATH_SCORE

\* Faulty variant, for comparison: the slice takes one link too many.
CandidatesOffByOne(links, n) == SubSeq(links, 1, Min(n + 1, Len(links)))

\* internal_links[:max_pages]
Candidates(links, n) == SubSeq(links, 1, Min(n, Len(links)))

\* Faulty variant, for comparison: the latest page always replaces the running best.
UpdateBestAlways(best, page) == page

\* Faulty variant, for comparison: a page with an equal score replaces the running best.
UpdateBestOnTie(best, page) == IF page.score >= best.score THEN page ELSE best

\* if total_score > best_score: best_score, best_content, best_url = ...
UpdateBest(best, page) == IF page.score > best.score THEN page ELSE best

\* Faulty variant, for comparison: the early stop asks for a combined score of 80.
GoodMatchAt80(total_score) == total_score >= 80

\* if total_score >= 70: return
GoodMatch(total_score) == total_score >= GOOD_MATCH_SCORE

\* if best_score >= 50 and pages_explored >= 4: break
AcceptableStop(score, explored) == score >= ACCEPTABLE_SCORE /\ explored >= ACCEPTABLE_PAGES

CountReqs(counts, reqs) ==
    [u \in Urls |-> counts[u] + Cardinality({i \in 1..Len(reqs) : reqs[i] = u})]

\* the PDF links a response shows: the URL itself for a PDF, else the ".pdf"
\* file links of the page
PdfsShown(u, resp) ==
    IF resp.kind = "fail" THEN {}
    ELSE IF resp.kind = "pdf" \/ IsPdfUrl(u) THEN {u}
    ELSE {f \in SeqToSet(resp.file_links) : IsPdfUrl(f)}

\* One iteration of the for loop over internal_links[:max_pages], for the
\* candidate link and the network's answer resp.  stop is the way the
\* iteration ends: "next" (continue, or the end of the body), "good" (the
\* return at total_score >= 70) or "acceptable" (the break).
LoopBody(link, best, explored, visited, pdfs, epdf, query, resp) ==
    IF link[1] \in visited
    THEN [stop |-> "next", best |-> best, pages_explored |-> explored,
          visited_urls |-> visited, pdf_links |-> pdfs, reqs |-> <<>>,
          content |-> EmptyContent, total |-> 0, called |-> FALSE]
    ELSE LET page == ExtractSinglePage(link[1], epdf, visited, pdfs, resp)
             content_score == SemanticMatchScore(page.content, query)
             total_score == (link[2] + content_score) \div 2
             newBest == UpdateBest(best, [content |-> page.content, url |-> link[1],
                                          score |-> total_score])
         IN IF IsEmpty(page.content)
            THEN [stop |-> "next", best |-> best, pages_explored |-> explored + 1,
                  visited_urls |-> page.visited_urls, pdf_links |-> page.pdf_links,
                  reqs |-> page.reqs, content |-> EmptyContent, total |-> 0,
                  called |-> TRUE]
            ELSE [stop |-> IF GoodMatch(total_score) THEN "good"
                           ELSE IF AcceptableStop(newBest.score, explored + 1)
                           THEN "acceptable" ELSE "next",
                  best |-> newBest, pages_explored |-> explored + 1,
                  visited_urls |-> page.visited_urls, pdf_links |-> page.pdf_links,
                  reqs |-> page.reqs, content |-> page.content, total |-> total_score,
                  called |-> TRUE]

CrawlInit ==
    /\ visited_urls = {}
    /\ pdf_links = <<>>
    /\ pc = "idle"
    /\ url = "s"
    /\ max_pages = 0
    /\ deep_crawl = FALSE
    /\ extract_pdf_content = FALSE
    /\ priority_keywords = <<>>
    /\ main_content = EmptyContent
    /\ internal_links = <<>>
    /\ idx = 0
    /\ best_content = EmptyContent
    /\ best_score = 0
    /\ best_url = "s"
    /\ pages_explored = 0
    /\ result = NoResult
    /\ exitKind = "none"
    /\ reqCount = NoRequests
    /\ linkScoring = FALSE
    /\ startReached = FALSE
    /\ loopFetches = 0
    /\ last = NoLast
    /\ hist = <<>>
    /\ failedCand = {}
    /\ sessVisited = {}
    /\ sessPdfs = {}
    /\ prevHadPdf = FALSE

NoScorer == [pc |-> "none"]

NoLinker == [pc |-> "none"]

NoPdfx == [pc |-> "none"]

NoFrames == <<>>

NoPager == [pc |-> "none"]

NoCleaner == [pc |-> "none"]

NoLimiter == [pc |-> "none"]

ToolsIdle ==
    /\ pager = NoPager
    /\ cleaner = NoCleaner
    /\ limiter = NoLimiter

ComponentsIdle ==
    /\ scorer = NoScorer
    /\ linker = NoLinker
    /\ pdfx = NoPdfx
    /\ frames = NoFrames
    /\ ToolsIdle

Init == CrawlInit /\ ComponentsIdle

\* extract_site_content is entered: the session state is reset
Call(u, mp, dc, ep, kw) ==
    /\ pc = "idle"
    /\ LET r == ResetSession(visited_urls, pdf_links) IN
       /\ visited_urls' = r.visited_urls
       /\ pdf_links' = r.pdf_links
    /\ pc' = "main"
    /\ url' = u
    /\ max_pages' = mp
    /\ deep_crawl' = dc
    /\ extract_pdf_content' = ep
    /\ priority_keywords' = kw
    /\ best_url' = u
    /\ prevHadPdf' = (prevHadPdf \/ pdf_links # <<>>)
    /\ UNCHANGED <<main_content, internal_links, idx, best_content, best_score,
                   pages_explored, result, exitKind, reqCount, linkScoring, startReached,
                   loopFetches, last, hist, failedCand, sessVisited, sessPdfs,
                   componentVars>>

\* The call has returned and its frame is dropped: the arguments and locals
\* are gone, the extractor keeps its fields for the next call.
Release ==
    /\ pc = "returned"
    /\ pc' = "idle"
    /\ url' = "s"
    /\ max_pages' = 0
    /\ deep_crawl' = FALSE
    /\ extract_pdf_content' = FALSE
    /\ priority_keywords' = <<>>
    /\ main_content' = EmptyContent
    /\ internal_links' = <<>>
    /\ idx' = 0
    /\ best_content' = EmptyContent
    /\ best_score' = 0
    /\ best_url' = "s"
    /\ pages_explored' = 0
    /\ result' = NoResult
    /\ exitKind' = "none"
    /\ reqCount' = NoRequests
    /\ linkScoring' = FALSE
    /\ startReached' = FALSE
    /\ loopFetches' = 0
    /\ last' = NoLast
    /\ hist' = <<>>
    /\ failedCand' = {}
    /\ sessVisited' = {}
    /\ sessPdfs' = {}
    /\ UNCHANGED <<extractorVars, prevHadPdf, componentVars>>

\* Step 1: the start page is extracted and scored; the fast path and the
\* return without deep crawl
FetchMain(resp) ==
    /\ pc = "main"
    /\ \E page \in {ExtractSinglePage(url, extract_pdf_content, visited_urls, pdf_links, resp)} :
       \E match_score \in {SemanticMatchScore(page.content, SearchQuery(priority_keywords))} :
          /\ visited_urls' = page.visited_urls
          /\ pdf_links' = page.pdf_links
          /\ main_content' = page.content
          /\ reqCount' = CountReqs(reqCount, page.reqs)
          /\ startReached' = (startReached \/ (page.reqs # <<>> /\ resp.kind # "fail"))
          /\ sessVisited' = sessVisited \cup {url}
          /\ sessPdfs' = sessPdfs \cup (IF page.reqs # <<>> THEN PdfsShown(url, resp) ELSE {})
          /\ IF FastPath(page.content, match_score)
             THEN /\ pc' = "returned"
                  /\ result' = FormatResult(page.content, url, match_score, page.pdf_links)
                  /\ exitKind' = "fast"
             ELSE IF ~deep_crawl
             THEN /\ pc' = "returned"
                  /\ result' = FormatResult(page.content, url, 0, page.pdf_links)
                  /\ exitKind' = "nodeep"
             ELSE /\ pc' = "links"
                  /\ UNCHANGED <<result, exitKind>>
    /\ UNCHANGED <<argVars, internal_links, idx, best_content, best_score, best_url,
                   pages_explored, linkScoring, loopFetches, last, hist, failedCand,
                   prevHadPdf, componentVars>>

\* Step 2: the internal links are collected and scored; without links, or
\* with an empty internal_links[:max_pages], the call returns
ScoreLinks(resp) ==
    /\ pc = "links"
    /\ \E links \in {GetScoredInternalLinks(url, SearchQuery(priority_keywords), resp)} :
       \E score \in {IF IsEmpty(main_content) THEN 0
                      ELSE SemanticMatchScore(main_content, SearchQuery(priority_keywords))} :
          /\ internal_links' = links
          /\ linkScoring' = TRUE
          /\ reqCount' = CountReqs(reqCount, <<url>>)
          /\ startReached' = (startReached \/ resp.ok)
          /\ IF links = <<>>
             THEN /\ pc' = "returned"
                  /\ result' = FormatResult(main_content, url, 0, pdf_links)
                  /\ exitKind' = "nolinks"
                  /\ UNCHANGED <<idx, best_content, best_score, best_url,
                                 pages_explored, hist>>
             ELSE /\ best_content' = main_content
                  /\ best_score' = score
                  /\ best_url' = url
                  /\ pages_explored' = 1
                  /\ idx' = 1
                  /\ hist' = <<[url |-> url, content |-> main_content, score |-> score]>>
                  /\ IF Candidates(links, max_pages) = <<>>
                     THEN /\ pc' = "returned"
                          /\ result' = FormatResult(main_content, url, score, pdf_links)
                          /\ exitKind' = "exhausted"
                     ELSE /\ pc' = "loop"
                          /\ UNCHANGED <<result, exitKind>>
    /\ UNCHANGED <<extractorVars, argVars, main_content, loopFetches, last,
                   failedCand, sessVisited, sessPdfs, prevHadPdf, componentVars>>

\* Step 3: one iteration of the exploration loop, and the return that
\* follows it when the loop stops or is exhausted
ExploreStep(resp) ==
    /\ pc = "loop"
    /\ \E cands \in {Candidates(internal_links, max_pages)} :
       \E link \in {cands[idx]} :
       \E best \in {[content |-> best_content, url |-> best_url, score |-> best_score]} :
       \E it \in {LoopBody(link, best, pages_explored, visited_urls, pdf_links,
                            extract_pdf_content, SearchQuery(priority_keywords), resp)} :
       \E failed \in {it.reqs # <<>> /\ resp.kind = "fail"} :
       \E counts \in {CountReqs(reqCount, it.reqs)} :
       \E done \in {it.stop # "next" \/ idx = Len(cands)} :
          /\ visited_urls' = it.visited_urls
          /\ pdf_links' = it.pdf_links
          /\ best_content' = it.best.content
          /\ best_url' = it.best.url
          /\ best_score' = it.best.score
          /\ pages_explored' = it.pages_explored
          /\ reqCount' = counts
          /\ loopFetches' = loopFetches + (IF it.reqs # <<>> THEN 1 ELSE 0)
          /\ last' = [fetched |-> it.reqs # <<>>, failed |-> failed,
                      scored |-> ~IsEmpty(it.content), url |-> link[1],
                      content |-> it.content, total |-> it.total,
                      bestBefore |-> best, pagesBefore |-> pages_explored]
          /\ hist' = IF IsEmpty(it.content) THEN hist
                     ELSE Append(hist, [url |-> link[1], content |-> it.content,
                                        score |-> it.total])
          /\ failedCand' = IF failed THEN failedCand \cup {[url |-> link[1], n |-> counts[link[1]]]}
                           ELSE failedCand
          /\ sessVisited' = sessVisited \cup (IF it.called THEN {link[1]} ELSE {})
          /\ sessPdfs' = sessPdfs \cup (IF it.reqs # <<>> THEN PdfsShown(link[1], resp) ELSE {})
          /\ IF done
             THEN /\ pc' = "returned"
                  /\ result' = FormatResult(it.best.content, it.best.url, it.best.score,
                                            it.pdf_links)
                  /\ exitKind' = IF it.stop = "next" THEN "exhausted" ELSE it.stop
                  /\ idx' = idx
             ELSE /\ pc' = "loop"
                  /\ idx' = idx + 1
                  /\ UNCHANGED <<result, exitKind>>
    /\ UNCHANGED <<argVars, main_content, internal_links, linkScoring, startReached,
                   prevHadPdf, componentVars>>

Next ==
    \/ \E u \in StartUrls, mp \in 0..MaxPagesArg, dc \in BOOLEAN, ep \in BOOLEAN,
          kw \in Queries : Call(u, mp, dc, ep, kw)
    \/ \E resp \in PageResponses(extract_pdf_content) : FetchMain(resp)
    \/ \E resp \in LinkResponses : ScoreLinks(resp)
    \/ \E resp \in PageResponses(extract_pdf_content) : ExploreStep(resp)
    \/ Release

Spec == Init /\ [][Next]_vars

\* ------------------------------------------------ ContentScorer on its own
\* _semantic_match_score is called on a content and a query, then on a second
\* content that holds the first one's keyword occurrences and more.
ScorerLens == {0, 100, 200, 201, 500, 600}

ScorerContents ==
    { c \in [len : ScorerLens, occ : [Words -> 0..MaxOcc], mark : {FALSE}] :
        /\ c.len = 0 => c.occ = NoOcc
        /\ c.occ[3] = 0 }

ScorerQueries == UNION { [1..n -> Words] : n \in 0..MaxQueryLen }

\* c2 holds every occurrence c1 holds, strictly more of some word, and is at
\* least as long
Richer(c1, c2) ==
    /\ \A w \in Words : c2.occ[w] >= c1.occ[w]
    /\ \E w \in Words : c2.occ[w] > c1.occ[w]
    /\ c2.len >= c1.len

ScorerInit ==
    /\ CrawlInit
    /\ linker = NoLinker
    /\ pdfx = NoPdfx
    /\ frames = NoFrames
    /\ ToolsIdle
    /\ \E c \in ScorerContents, q \in ScorerQueries :
          scorer = [pc |-> "ready", content |-> c, query |-> q, score |-> -1,
                    by_word |-> [w \in Words |-> 0],
                    richer |-> c, richer_score |-> -1]

ScoreContent ==
    /\ scorer.pc = "ready"
    /\ scorer' = [scorer EXCEPT !.pc = "scored",
                                !.score = SemanticMatchScore(scorer.content, scorer.query),
                                !.by_word = PointsByWord(scorer.content,
                                                         QueryWords(scorer.query), 1)]
    /\ UNCHANGED <<extractorVars, pc, argVars, localVars, result, exitKind, observerVars,
                   linker, pdfx, frames, toolVars>>

ScoreRicher(c2) ==
    /\ scorer.pc = "scored"
    /\ Richer(scorer.content, c2)
    /\ scorer' = [scorer EXCEPT !.pc = "compared", !.richer = c2,
                                !.richer_score = SemanticMatchScore(c2, scorer.query)]
    /\ UNCHANGED <<extractorVars, pc, argVars, localVars, result, exitKind, observerVars,
                   linker, pdfx, frames, toolVars>>

ScorerNext ==
    \/ ScoreContent
    \/ \E c2 \in (IF scorer.pc = "scored" THEN ScorerContents ELSE {}) : ScoreRicher(c2)

SpecScorer == ScorerInit /\ [][ScorerNext]_vars

\* --------------------------------------------------- LinkScorer on its own
\* _get_scored_internal_links is called on a page URL, with or without a
\* query string of its own, and a query; the page carries any sequence of up
\* to MaxLinkAnchors anchors.
LinkerBaseUrls == {"s", "sq"}

LinkerAnchors ==
    { Anchor("s", FALSE, {1}, 1),
      Anchor("sq", FALSE, {1, 2}, 0),
      Anchor("cf", FALSE, {}, 0),
      Anchor("c", FALSE, {1}, 1),
      Anchor("b", FALSE, {}, 1),
      Anchor("a", FALSE, {1}, 3),
      Anchor("d", FALSE, {2}, 2),
      Anchor("e", FALSE, {3}, 0),
      Anchor("e", TRUE, {1}, 1),
      Anchor("login", FALSE, {1}, 1),
      Anchor("ext", FALSE, {1, 2}, 2) }

LinkerPages == UNION { [1..n -> LinkerAnchors] : n \in 0..MaxLinkAnchors }

LinkerResponses ==
    { [ok |-> FALSE, anchors |-> <<>>] } \cup
    { [ok |-> TRUE, anchors |-> a] : a \in LinkerPages }

LinkerInit ==
    /\ CrawlInit
    /\ scorer = NoScorer
    /\ pdfx = NoPdfx
    /\ frames = NoFrames
    /\ ToolsIdle
    /\ \E u \in LinkerBaseUrls, q \in Queries :
          linker = [pc |-> "ready", base_url |-> u, query |-> q,
                    resp |-> [ok |-> FALSE, anchors |-> <<>>], links |-> <<>>]

ScoreInternalLinks(resp) ==
    /\ linker.pc = "ready"
    /\ linker' = [linker EXCEPT
                    !.pc = "returned",
                    !.resp = resp,
                    !.links = GetScoredInternalLinks(linker.base_url, linker.query, resp)]
    /\ UNCHANGED <<extractorVars, pc, argVars, localVars, result, exitKind, observerVars,
                   scorer, pdfx, frames, toolVars>>

\* the network answers once the call is made
LinkerNext ==
    \E resp \in (IF linker.pc = "ready" THEN LinkerResponses ELSE {}) :
        ScoreInternalLinks(resp)

SpecLinker == LinkerInit /\ [][LinkerNext]_vars

\* ------------------------------------------------- PdfExtractor on its own
\* _extract_pdf_from_url_advanced step by step.  A strategy's outcome is the
\* text it extracts from each page of the file, as a length, or an exception
\* of the PDF parser; pages_content holds the length of each formatted page.
PageTexts == {0, 5, 50, 80}

PdfTexts == UNION { [1..n -> PageTexts] : n \in 0..MaxPdfPages }

StrategyOutcomes ==
    { [raised |-> TRUE, texts |-> <<>>] } \cup
    { [raised |-> FALSE, texts |-> t] : t \in PdfTexts }

DownloadResponses == [ok : BOOLEAN, pdf_type : BOOLEAN]

RECURSIVE Total(_)
Total(pages) == IF pages = <<>> THEN 0 ELSE Head(pages) + Total(Tail(pages))

\* The page loop of _extract_pdf_strategy1 from page i on: every page appends
\* an entry that carries page_num -- the banner and the text, or the banner and
\* the empty-page note for a page without elements or with a text of 10
\* characters or less -- and page_num is incremented on every path.
RECURSIVE Strategy1Loop(_, _, _, _)
Strategy1Loop(texts, i, pages_content, page_num) ==
    IF i > Len(texts) THEN pages_content
    ELSE IF texts[i] > MIN_PAGE_TEXT
    THEN Strategy1Loop(texts, i + 1,
                       Append(pages_content,
                              [page_num |-> page_num, empty |-> FALSE,
                               len |-> PAGE_BANNER_LEN + texts[i] + 1]),
                       page_num + 1)
    ELSE Strategy1Loop(texts, i + 1,
                       Append(pages_content,
                              [page_num |-> page_num, empty |-> TRUE,
                               len |-> EMPTY_PAGE_LEN]),
                       page_num + 1)

\* Faulty variant, for comparison: a page without text is left out, as
\* strategy 3 does.
Strategy1EntriesSkipEmpty(texts) ==
    SelectSeq(Strategy1Loop(texts, 1, <<>>, 1), LAMBDA en : ~en.empty)

\* pages_content: List[str] = []; page_num = 1; the loop; return pages_content
Strategy1Entries(texts) == Strategy1Loop(texts, 1, <<>>, 1)

\* The lengths of the entries _extract_pdf_strategy1 returns
Strategy1Pages(texts) ==
    [i \in 1..Len(Strategy1Entries(texts)) |-> Strategy1Entries(texts)[i].len]

RECURSIVE BannerPages(_, _)
BannerPages(texts, least) ==
    IF texts = <<>> THEN <<>>
    ELSE (IF Head(texts) > least THEN <<PAGE_BANNER_LEN + Head(texts) + 1>> ELSE <<>>)
         \o BannerPages(Tail(texts), least)

\* _extract_pdf_strategy2: nothing for a text under 20 characters in all (and
\* for a parser exception, caught inside); else one entry per non-blank page
Strategy2Pages(out) ==
    IF out.raised \/ Total(out.texts) < MIN_FULL_TEXT THEN <<>>
    ELSE BannerPages(out.texts, 0)

\* _extract_pdf_strategy3: one entry per page with more than 10 characters
Strategy3Pages(texts) == BannerPages(texts, MIN_PAGE_TEXT)

\* total_chars = sum(len(p) for p in pages_content); if total_chars < 200
LowContent(pages) == Total(pages) < LOW_CONTENT_CHARS

\* not pages_content or all(len(p.strip()) < 20 for p in pages_content)
Unextractable(pages) ==
    pages = <<>> \/ \A i \in 1..Len(pages) : pages[i] - 1 < MIN_USABLE_PAGE

\* Faulty variant, for comparison: the pages of the fallback strategy are
\* added to the pages already extracted.
FallbackExtends(previous, pages) == previous \o pages

\* pages_content = self._extract_pdf_strategyN(tmp_path): the assignment
\* replaces what the strategy before had extracted
Fallback(previous, pages) == pages

NoTexts == [k \in 1..3 |-> <<>>]

PdfInit ==
    /\ CrawlInit
    /\ scorer = NoScorer
    /\ linker = NoLinker
    /\ frames = NoFrames
    /\ ToolsIdle
    /\ \E suffix \in BOOLEAN :
          pdfx = [pc |-> "download", pdf_suffix |-> suffix, tmp_exists |-> FALSE,
                  pages_content |-> <<>>, tried |-> {}, texts |-> NoTexts,
                  order |-> <<>>, entries |-> <<>>,
                  with_file |-> TRUE, result |-> "none"]

PdfUnchanged ==
    UNCHANGED <<extractorVars, pc, argVars, localVars, result, exitKind, observerVars,
                scorer, linker, frames, toolVars>>

\* session.get, raise_for_status, the Content-Type test and the write of the
\* temporary file
Download(resp) ==
    /\ pdfx.pc = "download"
    /\ pdfx' = IF ~resp.ok
               THEN [pdfx EXCEPT !.pc = "returned", !.result = "extraction impossible"]
               ELSE IF ~resp.pdf_type /\ ~pdfx.pdf_suffix
               THEN [pdfx EXCEPT !.pc = "returned", !.result = "not a PDF"]
               ELSE [pdfx EXCEPT !.pc = "strategy1", !.tmp_exists = TRUE]
    /\ PdfUnchanged

\* pages_content = self._extract_pdf_strategy1(tmp_path), then the first test
\* of total_chars; an exception of the parser is caught by the except clause
\* of _extract_pdf_from_url_advanced
Strategy1(out) ==
    /\ pdfx.pc = "strategy1"
    /\ pdfx' = IF out.raised
               THEN [pdfx EXCEPT !.pc = "returned", !.tried = @ \cup {1},
                                 !.order = Append(@, 1),
                                 !.with_file = @ /\ pdfx.tmp_exists,
                                 !.result = "extraction impossible"]
               ELSE [pdfx EXCEPT !.pc = IF LowContent(Strategy1Pages(out.texts))
                                        THEN "strategy2" ELSE "remove",
                                 !.tried = @ \cup {1},
                                 !.order = Append(@, 1),
                                 !.with_file = @ /\ pdfx.tmp_exists,
                                 !.texts[1] = out.texts,
                                 !.entries = Strategy1Entries(out.texts),
                                 !.pages_content = Strategy1Pages(out.texts)]
    /\ PdfUnchanged

\* pages_content = self._extract_pdf_strategy2(tmp_path), then the second test
Strategy2(out) ==
    /\ pdfx.pc = "strategy2"
    /\ pdfx' = [pdfx EXCEPT !.pc = IF LowContent(Fallback(pdfx.pages_content,
                                                           Strategy2Pages(out)))
                                   THEN "strategy3" ELSE "remove",
                            !.tried = @ \cup {2},
                            !.order = Append(@, 2),
                            !.with_file = @ /\ pdfx.tmp_exists,
                            !.texts[2] = out.texts,
                            !.pages_content = Fallback(@, Strategy2Pages(out))]
    /\ PdfUnchanged

\* pages_content = self._extract_pdf_strategy3(tmp_path)
Strategy3(out) ==
    /\ pdfx.pc = "strategy3"
    /\ pdfx' = IF out.raised
               THEN [pdfx EXCEPT !.pc = "returned", !.tried = @ \cup {3},
                                 !.order = Append(@, 3),
                                 !.with_file = @ /\ pdfx.tmp_exists,
                                 !.result = "extraction impossible"]
               ELSE [pdfx EXCEPT !.pc = "remove",
                                 !.tried = @ \cup {3},
                                 !.order = Append(@, 3),
                                 !.with_file = @ /\ pdfx.tmp_exists,
                                 !.texts[3] = out.texts,
                                 !.pages_content = Fallback(@, Strategy3Pages(out.texts))]
    /\ PdfUnchanged

\* os.remove(tmp_path) and the result: the document, or the note that the
\* PDF is not extractable
RemoveAndReturn ==
    /\ pdfx.pc = "remove"
    /\ pdfx' = [pdfx EXCEPT !.pc = "returned", !.tmp_exists = FALSE,
                            !.result = IF Unextractable(pdfx.pages_content)
                                       THEN "not extractable" ELSE "document"]
    /\ PdfUnchanged

PdfNext ==
    \/ \E resp \in DownloadResponses : Download(resp)
    \/ \E out \in StrategyOutcomes : Strategy1(out)
    \/ \E out \in StrategyOutcomes : Strategy2(out)
    \/ \E out \in StrategyOutcomes : Strategy3(out)
    \/ RemoveAndReturn

SpecPdf == PdfInit /\ [][PdfNext]_vars

\* --------------------------------------------- _extract_single_page on its own
\* One call of _extract_single_page on an HTML page whose file links are any
\* sequence of up to MaxPageFileLinks links, PDF or not, repeated or not; each
\* PDF download succeeds with a document or fails, and the extractor may
\* already know the link "p".
PageFileLinks ==
    UNION { [1..n -> PagePdfUrls \cup {"w"}] : n \in 0..MaxPageFileLinks }

PagerResponses ==
    { [kind |-> "html", text |-> [len |-> 100, occ |-> NoOcc, mark |-> FALSE],
       file_links |-> f, direct |-> "error", pdfOut |-> o] :
        f \in PageFileLinks, o \in [PagePdfUrls -> PdfOutcomes] }

NoPage == [content |-> EmptyContent, visited_urls |-> {}, pdf_links |-> <<>>,
           reqs |-> <<>>]

PagerInit ==
    /\ CrawlInit
    /\ scorer = NoScorer
    /\ linker = NoLinker
    /\ pdfx = NoPdfx
    /\ frames = NoFrames
    /\ cleaner = NoCleaner
    /\ limiter = NoLimiter
    /\ \E ep \in BOOLEAN, known \in {<<>>, <<"p">>} :
          pager = [pc |-> "ready", url |-> "s", extract_pdf_content |-> ep,
                   pdf_links |-> known, file_links |-> <<>>, page |-> NoPage]

\* self._extract_single_page(url, extract_pdf_content), the answers of the
\* network included
ExtractPage(resp) ==
    /\ pager.pc = "ready"
    /\ pager' = [pager EXCEPT !.pc = "returned",
                              !.file_links = resp.file_links,
                              !.page = ExtractSinglePage(pager.url,
                                                         pager.extract_pdf_content, {},
                                                         pager.pdf_links, resp)]
    /\ UNCHANGED <<extractorVars, pc, argVars, localVars, result, exitKind, observerVars,
                   scorer, linker, pdfx, frames, cleaner, limiter>>

PagerNext ==
    \E resp \in (IF pager.pc = "ready" THEN PagerResponses ELSE {}) : ExtractPage(resp)

SpecPage == PagerInit /\ [][PagerNext]_vars

\* ------------------------------------------------- _clean_content on its own
\* A content is the sequence of its lines (content.split('\n')), so the empty
\* string is the one empty line.  The lines are: the empty line, a line of
\* spaces, a source annotation, a divider, two short lines of which one is a
\* prefix of the other, a long line and the same long line in capitals.
EmptyLine == ""

SpaceLine == " "

SourceLine == "src"

DividerLine == "==="

Lines == {EmptyLine, SpaceLine, SourceLine, DividerLine, "a", "ab", "l", "L"}

\* line.strip()
Stripped(line) == IF line = SpaceLine THEN EmptyLine ELSE line

\* len(line_stripped)
StrippedLen(line) ==
    CASE line \in {EmptyLine, SpaceLine} -> 0
      [] line = SourceLine -> 30
      [] line = DividerLine -> 60
      [] line = "a" -> 20
      [] line = "ab" -> 40
      [] line \in {"l", "L"} -> 80

\* line_stripped.startswith('📌 Source:')
IsSourceLine(line) == line = SourceLine

\* line_stripped.startswith('===')
IsDivider(line) == line = DividerLine

\* not line_stripped
IsBlank(line) == Stripped(line) = EmptyLine

\* Faulty variant, for comparison: every line with text is deduplicated.
IsLongAnyText(line) == StrippedLen(line) > 0

\* len(line_stripped) > 50
IsLong(line) == StrippedLen(line) > DEDUP_MIN_LEN

\* key = line_stripped[:100].lower(): the lines are shorter than KEY_LEN, so
\* the key is the whole stripped line in lower case
LineKey(line) ==
    IF StrippedLen(line) <= KEY_LEN
    THEN (IF line = "L" THEN "l" ELSE Stripped(line))
    ELSE "cut"

\* the for loop over lines, from line i on
RECURSIVE CleanLoop(_, _, _, _, _)
CleanLoop(lines, i, cleaned_lines, seen_lines, last_was_empty) ==
    IF i > Len(lines) THEN cleaned_lines
    ELSE IF IsSourceLine(lines[i]) \/ IsDivider(lines[i])
    THEN CleanLoop(lines, i + 1, cleaned_lines, seen_lines, last_was_empty)
    ELSE IF IsBlank(lines[i]) /\ last_was_empty
    THEN CleanLoop(lines, i + 1, cleaned_lines, seen_lines, last_was_empty)
    ELSE IF IsLong(lines[i]) /\ LineKey(lines[i]) \in seen_lines
    THEN CleanLoop(lines, i + 1, cleaned_lines, seen_lines, IsBlank(lines[i]))
    ELSE CleanLoop(lines, i + 1, Append(cleaned_lines, lines[i]),
                   IF IsLong(lines[i]) THEN seen_lines \cup {LineKey(lines[i])}
                   ELSE seen_lines,
                   IsBlank(lines[i]))

\* while '\n\n\n' in result: result = result.replace('\n\n\n', '\n\n'), on the
\* joined lines: of empty lines that follow one another only one stays
RECURSIVE CollapseNewlines(_)
CollapseNewlines(lines) ==
    IF Len(lines) < 2 THEN lines
    ELSE IF lines[1] = EmptyLine /\ lines[2] = EmptyLine
    THEN CollapseNewlines(Tail(lines))
    ELSE <<Head(lines)>> \o CollapseNewlines(Tail(lines))

\* result.strip(): the blank lines at both ends go; nothing left is the empty
\* string
RECURSIVE StripResult(_)
StripResult(lines) ==
    IF lines = <<>> THEN <<EmptyLine>>
    ELSE IF IsBlank(Head(lines)) THEN StripResult(Tail(lines))
    ELSE IF IsBlank(lines[Len(lines)]) THEN StripResult(SubSeq(lines, 1, Len(lines) - 1))
    ELSE lines

\* _clean_content(content)
CleanContent(content) ==
    IF content = <<EmptyLine>> THEN <<EmptyLine>>
    ELSE StripResult(CollapseNewlines(CleanLoop(content, 1, <<>>, {}, FALSE)))

CleanerContents == UNION { [1..n -> Lines] : n \in 1..MaxLines }

CleanerInit ==
    /\ CrawlInit
    /\ scorer = NoScorer
    /\ linker = NoLinker
    /\ pdfx = NoPdfx
    /\ frames = NoFrames
    /\ pager = NoPager
    /\ limiter = NoLimiter
    /\ \E c \in CleanerContents :
          cleaner = [pc |-> "ready", content |-> c, once |-> <<>>, twice |-> <<>>]

CleanerUnchanged ==
    UNCHANGED <<extractorVars, pc, argVars, localVars, result, exitKind, observerVars,
                scorer, linker, pdfx, frames, pager, limiter>>

\* content = self._clean_content(content)
Clean ==
    /\ cleaner.pc = "ready"
    /\ cleaner' = [cleaner EXCEPT !.pc = "cleaned",
                                  !.once = CleanContent(cleaner.content)]
    /\ CleanerUnchanged

\* the cleaned content is cleaned again, as when a result is given back to
\* _format_result
CleanAgain ==
    /\ cleaner.pc = "cleaned"
    /\ cleaner' = [cleaner EXCEPT !.pc = "recleaned",
                                  !.twice = CleanContent(cleaner.once)]
    /\ CleanerUnchanged

CleanerNext == Clean \/ CleanAgain

SpecCleaner == CleanerInit /\ [][CleanerNext]_vars

\* ----------------------------------------------------------- tool call limiter
\* tools_core_optimized: the counters of the tools, shared by the module, with
\* the clock of time.time().  Two of the tools are followed: extract_web_content
\* (2 calls) and smart_site_search (1 call).
Tools == {"extract_web_content", "smart_site_search"}

\* the max_calls each tool passes to _check_call_limit
MaxCalls == [t \in Tools |-> IF t = "extract_web_content" THEN 2 ELSE 1]

\* time.time() when the module is loaded, in seconds
ClockStart == 1000

\* The seconds that may pass between two calls
TickSeconds == {100, 301}

NoCounts == [t \in Tools |-> 0]

NoCall == [kind |-> "none", tool |-> "extract_web_content", auto_reset |-> FALSE,
           count |-> 0, passed |-> FALSE, body_ran |-> FALSE]

\* if current_time - _last_reset_time > _COUNTER_RESET_INTERVAL
ResetNeeded(current_time, last_reset_time) ==
    current_time - last_reset_time > COUNTER_RESET_INTERVAL

\* Faulty variant, for comparison: the limit is reached one call too late.
LimitReachedLate(current_count, max_calls) == current_count > max_calls

\* if current_count >= max_calls: return False
LimitReached(current_count, max_calls) == current_count >= max_calls

\* _tool_call_counter = {}, _last_reset_time = 0; since_manual and since_any
\* count, for each tool, the calls that passed _check_call_limit since the last
\* reset_tool_counters() and since the last reset of either kind; last is what
\* the last call did
LimiterInit ==
    /\ CrawlInit
    /\ scorer = NoScorer
    /\ linker = NoLinker
    /\ pdfx = NoPdfx
    /\ frames = NoFrames
    /\ pager = NoPager
    /\ cleaner = NoCleaner
    /\ limiter = [pc |-> "run", tool_call_counter |-> NoCounts, last_reset_time |-> 0,
                  now |-> ClockStart, ticks |-> 0, since_manual |-> NoCounts,
                  since_any |-> NoCounts, last |-> NoCall]

LimiterUnchanged ==
    UNCHANGED <<extractorVars, pc, argVars, localVars, result, exitKind, observerVars,
                scorer, linker, pdfx, frames, pager, cleaner>>

\* A tool is invoked: _check_call_limit(tool_name, max_calls) with
\* _reset_counters_if_needed() first, then the limit message or the tool body
InvokeTool(tool_name) ==
    /\ limiter.pc = "run"
    /\ \E auto \in {ResetNeeded(limiter.now, limiter.last_reset_time)} :
       \E counter \in {IF auto THEN NoCounts ELSE limiter.tool_call_counter} :
       \E current_count \in {counter[tool_name]} :
       \E refused \in {LimitReached(current_count, MaxCalls[tool_name])} :
          limiter' = [limiter EXCEPT
              !.tool_call_counter =
                  IF refused THEN counter
                  ELSE [counter EXCEPT ![tool_name] = current_count + 1],
              !.last_reset_time = limiter.now,
              !.since_any =
                  IF refused THEN (IF auto THEN NoCounts ELSE @)
                  ELSE [(IF auto THEN NoCounts ELSE @) EXCEPT ![tool_name] = @ + 1],
              !.since_manual =
                  IF refused THEN @ ELSE [@ EXCEPT ![tool_name] = @ + 1],
              !.last = [kind |-> "invoke", tool |-> tool_name, auto_reset |-> auto,
                        count |-> current_count, passed |-> ~refused,
                        body_ran |-> ~refused]]
    /\ LimiterUnchanged

\* reset_tool_counters()
ResetToolCounters ==
    /\ limiter.pc = "run"
    /\ limiter' = [limiter EXCEPT !.tool_call_counter = NoCounts,
                                  !.since_manual = NoCounts,
                                  !.since_any = NoCounts,
                                  !.last = [NoCall EXCEPT !.kind = "reset"]]
    /\ LimiterUnchanged

\* time passes between two calls
Tick(seconds) ==
    /\ limiter.pc = "run"
    /\ limiter.ticks < MaxTicks
    /\ limiter' = [limiter EXCEPT !.now = @ + seconds, !.ticks = @ + 1,
                                  !.last = [NoCall EXCEPT !.kind = "tick"]]
    /\ LimiterUnchanged

LimiterNext ==
    \/ \E t \in Tools : InvokeTool(t)
    \/ ResetToolCounters
    \/ \E s \in TickSeconds : Tick(s)

SpecLimiter == LimiterInit /\ [][LimiterNext]_vars

\* ----------------------------------- calls at the same time on one extractor
\* get_extractor() hands every caller the same WebExtractor, so the calls of
\* extract_site_content that overlap in time work on the same visited_urls
\* and pdf_links; each has its own arguments and locals.  A step of a call
\* is what it does up to and including its next request.
Callers == {1, 2}

ConcurrentPageResponses ==
    { r \in PageResponses(FALSE) :
        \/ r.kind = "fail"
        \/ /\ r.kind = "html"
           /\ \/ r.text.len = 100 /\ r.file_links = <<>>
              \/ r.text.len = 600 /\ r.text.occ[2] = 0 /\ r.file_links # <<>>
              \/ r.text.len = 600 /\ r.text.occ[2] > 0 /\ r.file_links = <<>> }

ConcurrentLinkResponses ==
    { [ok |-> FALSE, anchors |-> <<>>],
      [ok |-> TRUE, anchors |-> SubSeq(AnchorPool, 1, 6)] }

IdleFrame ==
    [pc |-> "idle", url |-> "s", max_pages |-> 0, priority_keywords |-> <<>>,
     main_content |-> EmptyContent, internal_links |-> <<>>, idx |-> 0, best |-> NoBest,
     pages_explored |-> 0, result |-> NoResult,
     own |-> {}, ownPdfs |-> {}, startRequests |-> 0]

ConcurrentInit ==
    /\ CrawlInit
    /\ scorer = NoScorer
    /\ linker = NoLinker
    /\ pdfx = NoPdfx
    /\ ToolsIdle
    /\ frames = [c \in Callers |-> IdleFrame]

ConcurrentUnchanged ==
    UNCHANGED <<pc, argVars, localVars, result, exitKind, observerVars, scorer, linker,
                pdfx, toolVars>>

\* caller c enters extract_site_content (deep_crawl=True,
\* extract_pdf_content=False): the fields of the shared extractor are cleared
ConcurrentCall(c, u, mp, kw) ==
    /\ frames[c].pc = "idle"
    /\ \E r \in {ResetSession(visited_urls, pdf_links)} :
          /\ visited_urls' = r.visited_urls
          /\ pdf_links' = r.pdf_links
    /\ frames' = [frames EXCEPT ![c] = [IdleFrame EXCEPT !.pc = "main", !.url = u,
                                                         !.max_pages = mp,
                                                         !.priority_keywords = kw]]
    /\ ConcurrentUnchanged

\* caller c extracts and scores its start page
ConcurrentFetchMain(c, resp) ==
    /\ frames[c].pc = "main"
    /\ \E f \in {frames[c]} :
       \E page \in {ExtractSinglePage(f.url, FALSE, visited_urls, pdf_links, resp)} :
       \E match_score \in {SemanticMatchScore(page.content, SearchQuery(f.priority_keywords))} :
          /\ visited_urls' = page.visited_urls
          /\ pdf_links' = page.pdf_links
          /\ frames' = [frames EXCEPT ![c] =
                [f EXCEPT
                   !.main_content = page.content,
                   !.own = @ \cup {f.url},
                   !.ownPdfs = @ \cup (IF page.reqs # <<>> THEN PdfsShown(f.url, resp) ELSE {}),
                   !.startRequests = @ + Len(page.reqs),
                   !.pc = IF FastPath(page.content, match_score) THEN "returned" ELSE "links",
                   !.result = IF FastPath(page.content, match_score)
                              THEN FormatResult(page.content, f.url, match_score,
                                                page.pdf_links)
                              ELSE @]]
    /\ ConcurrentUnchanged

\* caller c collects and scores the links of its start page
ConcurrentScoreLinks(c, resp) ==
    /\ frames[c].pc = "links"
    /\ \E f \in {frames[c]} :
       \E links \in {GetScoredInternalLinks(f.url, SearchQuery(f.priority_keywords), resp)} :
       \E score \in {IF IsEmpty(f.main_content) THEN 0
                      ELSE SemanticMatchScore(f.main_content,
                                              SearchQuery(f.priority_keywords))} :
          frames' = [frames EXCEPT ![c] =
             IF links = <<>>
             THEN [f EXCEPT !.internal_links = links,
                            !.startRequests = @ + 1,
                            !.pc = "returned",
                            !.result = FormatResult(f.main_content, f.url, 0, pdf_links)]
             ELSE [f EXCEPT !.internal_links = links,
                            !.startRequests = @ + 1,
                            !.best = [content |-> f.main_content, url |-> f.url,
                                      score |-> score],
                            !.pages_explored = 1,
                            !.idx = 1,
                            !.pc = IF Candidates(links, f.max_pages) = <<>>
                                   THEN "returned" ELSE "loop",
                            !.result = IF Candidates(links, f.max_pages) = <<>>
                                       THEN FormatResult(f.main_content, f.url, score,
                                                         pdf_links)
                                       ELSE @]]
    /\ UNCHANGED extractorVars
    /\ ConcurrentUnchanged

\* caller c runs one iteration of its exploration loop
ConcurrentExploreStep(c, resp) ==
    /\ frames[c].pc = "loop"
    /\ \E f \in {frames[c]} :
       \E cands \in {Candidates(f.internal_links, f.max_pages)} :
       \E link \in {cands[f.idx]} :
       \E it \in {LoopBody(link, f.best, f.pages_explored, visited_urls, pdf_links,
                            FALSE, SearchQuery(f.priority_keywords), resp)} :
       \E done \in {it.stop # "next" \/ f.idx = Len(cands)} :
          /\ visited_urls' = it.visited_urls
          /\ pdf_links' = it.pdf_links
          /\ frames' = [frames EXCEPT ![c] =
                [f EXCEPT
                   !.best = it.best,
                   !.pages_explored = it.pages_explored,
                   !.own = @ \cup (IF it.called THEN {link[1]} ELSE {}),
                   !.ownPdfs = @ \cup (IF it.reqs # <<>> THEN PdfsShown(link[1], resp)
                                        ELSE {}),
                   !.idx = IF done THEN @ ELSE @ + 1,
                   !.pc = IF done THEN "returned" ELSE "loop",
                   !.result = IF done
                              THEN FormatResult(it.best.content, it.best.url,
                                                it.best.score, it.pdf_links)
                              ELSE @]]
    /\ ConcurrentUnchanged

\* the call of caller c has returned to it
ConcurrentRelease(c) ==
    /\ frames[c].pc = "returned"
    /\ frames' = [frames EXCEPT ![c] = IdleFrame]
    /\ UNCHANGED extractorVars
    /\ ConcurrentUnchanged

ConcurrentNext ==
    \/ \E c \in Callers, u \in StartUrls, mp \in 1..MaxConcurrentPages :
          ConcurrentCall(c, u, mp, <<1, 2>>)
    \/ \E c \in Callers, resp \in ConcurrentPageResponses : ConcurrentFetchMain(c, resp)
    \/ \E c \in Callers, resp \in ConcurrentLinkResponses : ConcurrentScoreLinks(c, resp)
    \/ \E c \in Callers, resp \in ConcurrentPageResponses : ConcurrentExploreStep(c, resp)
    \/ \E c \in Callers : ConcurrentRelease(c)

SpecConcurrent == ConcurrentInit /\ [][ConcurrentNext]_vars

\* ------------------------------------------------------------------ claims
FirstMax(h) ==
    h[CHOOSE i \in 1..Len(h) :
        \A j \in 1..Len(h) : h[j].score <= h[i].score /\ (j < i => h[j].score < h[i].score)]

StartScore == SemanticMatchScore(main_content, SearchQuery(priority_keywords))

\* C1: within one session no URL is requested over the network more than
\* once (start-page fetch, link-scoring fetch, internal-page fetch, PDF
\* download all counted).
C1_NoUrlRequestedTwice == \A u \in Urls : reqCount[u] <= 1

\* C2: once the start page has been scored >= 60 the call has returned the
\* start page's formatted result; the link scorer was never invoked and no
\* internal page was fetched.
C2_FastPathReturnsAtOnce ==
    (pc \in {"links", "loop", "returned"} /\ StartScore >= FAST_PATH_SCORE) =>
        /\ pc = "returned"
        /\ exitKind = "fast"
        /\ ~linkScoring
        /\ loopFetches = 0
        /\ result = FormatResult(main_content, url, StartScore, pdf_links)
        /\ ~result.notFound

C2_Witness ==
    /\ pc = "returned"
    /\ exitKind = "fast"
    /\ deep_crawl
    /\ max_pages > 0
    /\ StartScore >= FAST_PATH_SCORE

\* C3: the first explored page with combined score >= 70 ends the
\* exploration: it is the latest page fetched, the call has returned, the
\* result is that page's content and URL, and it is the running best.
C3_GoodMatchStops ==
    /\ \A i \in 1..(Len(hist) - 1) : hist[i].score < GOOD_MATCH_SCORE
    /\ (last.scored /\ last.total >= GOOD_MATCH_SCORE) =>
          /\ pc = "returned"
          /\ exitKind = "good"
          /\ ~result.notFound
          /\ result.url = last.url
          /\ result.content = last.content
          /\ best_url = last.url
          /\ best_content = last.content
          /\ best_score = last.total

C3_Witness ==
    /\ pc = "returned"
    /\ exitKind = "good"
    /\ last.total >= GOOD_MATCH_SCORE
    /\ idx < Len(Candidates(internal_links, max_pages))
    /\ Len(hist) >= 3

\* C4: as soon as the running-best score is >= 50 and at least 4 pages have
\* been explored (the start page counted as one), no further candidate is
\* fetched and the running best is returned.
C4_AcceptableStopIsPrompt ==
    /\ (pc \in {"loop", "returned"} /\ hist # <<>>
          /\ best_score >= ACCEPTABLE_SCORE /\ pages_explored >= ACCEPTABLE_PAGES) =>
          /\ pc = "returned"
          /\ result = FormatResult(best_content, best_url, best_score, pdf_links)
    /\ ~(last.fetched /\ last.bestBefore.score >= ACCEPTABLE_SCORE
           /\ last.pagesBefore >= ACCEPTABLE_PAGES)

\* C5: the exploration loop requests at most max_pages internal pages.
C5_PageBudget == loopFetches <= max_pages

C5_Witness ==
    /\ pc = "returned"
    /\ exitKind = "exhausted"
    /\ max_pages >= 2
    /\ loopFetches = max_pages
    /\ Len(internal_links) > max_pages
    /\ \E f \in failedCand : TRUE

\* C6: the running best starts at the start page with its content score, and
\* a step of the loop never lowers its score: it is replaced only by the
\* page just fetched, with a strictly greater combined score.
C6_BestNeverDecreases ==
    [][ /\ (pc = "links" /\ pc' = "loop") =>
              /\ best_score' = StartScore
              /\ best_content' = main_content
              /\ best_url' = url
        /\ (pc = "loop") =>
              /\ best_score' >= best_score
              /\ (<<best_content', best_url', best_score'>> #
                    <<best_content, best_url, best_score>>) =>
                    /\ best_score' > best_score
                    /\ best_score' = last'.total
                    /\ best_content' = last'.content
                    /\ best_url' = last'.url ]_vars

C6_Witness ==
    /\ pc \in {"loop", "returned"}
    /\ \E i \in 2..Len(hist) : \E j \in (i + 1)..Len(hist) :
          /\ hist[i].url = best_url
          /\ hist[i].score = best_score
          /\ hist[i].score > hist[1].score
          /\ hist[j].score < best_score

\* C7: when the loop ends without the >= 70 stop, the result is the content
\* and URL of the highest-scoring page among the start page and the explored
\* pages with non-empty content, the earliest of them on equal scores.
C7_ReturnsFirstBest ==
    (pc = "returned" /\ exitKind \in {"acceptable", "exhausted"}) =>
        /\ result.url = FirstMax(hist).url
        /\ result.content = FirstMax(hist).content
        /\ result.notFound = IsEmpty(FirstMax(hist).content)

C7_Witness ==
    /\ pc = "returned"
    /\ exitKind \in {"acceptable", "exhausted"}
    /\ \E i \in 1..Len(hist) : \E j \in (i + 1)..Len(hist) :
          /\ hist[i].score = hist[j].score
          /\ hist[i].score = FirstMax(hist).score
          /\ result.url = hist[i].url
          /\ ~result.notFound

\* C8: a candidate whose fetch fails yields empty content, is in the visited
\* set, is never requested again in the session, leaves the running best
\* unchanged, and the loop goes on to the next candidate.
C8_FailedFetchSkipped ==
    /\ \A f \in failedCand : f.url \in visited_urls /\ reqCount[f.url] = f.n
    /\ last.failed =>
          /\ IsEmpty(last.content)
          /\ last.bestBefore = [content |-> best_content, url |-> best_url,
                                score |-> best_score]
          /\ \/ pc = "loop"
             \/ pc = "returned" /\ idx = Len(Candidates(internal_links, max_pages))

\* C9: when every request to the start URL failed, the call returns the
\* "not found" result with the start URL, with or without deep crawl.
C9_UnreachableStartNotFound ==
    (pc = "returned" /\ ~startReached) => (result.notFound /\ result.url = url)

C9_Witness ==
    /\ pc = "returned"
    /\ ~startReached
    /\ deep_crawl
    /\ linkScoring
    /\ reqCount[url] = 2
    /\ result.notFound

\* C10: a call starts with an empty visited set and PDF list: during a call
\* the visited set and the PDF list hold only URLs of this call, the start
\* page and every candidate reached are requested, and the result names only
\* PDF links of this call.
C10_SessionStartsClean ==
    /\ (pc # "idle") => /\ visited_urls \subseteq sessVisited
                        /\ SeqToSet(pdf_links) \subseteq sessPdfs
    /\ (pc \in {"links", "loop", "returned"}) => reqCount[url] >= 1
    /\ (pc = "loop") => loopFetches = idx - 1
    /\ (pc = "returned") => SeqToSet(result.pdfs) \subseteq sessPdfs

C10_Witness ==
    /\ prevHadPdf
    /\ pc = "returned"
    /\ reqCount[url] >= 1
    /\ loopFetches >= 1
    /\ ~result.notFound
    /\ result.pdfs = <<>>

\* The positions of a query's words longer than 2 characters
LongWordIdx(q) == {i \in 1..Len(q) : WordLen[q[i]] > 2}

RECURSIVE SumPoints(_, _, _)
SumPoints(c, q, idxs) ==
    IF idxs = {} THEN 0
    ELSE LET i == CHOOSE j \in idxs : TRUE IN
         Min(8 * c.occ[q[i]], 25) + SumPoints(c, q, idxs \ {i})

ScorerDone == scorer.pc \in {"scored", "compared"}

\* C12: the content score is an integer in [0, 100]; for an empty content, an
\* empty query or a query without a word longer than 2 characters it is 20
\* when the content is longer than 200 characters and 0 otherwise, so the
\* score of the empty content is 0.
C12_ScoreRange ==
    ScorerDone =>
        /\ scorer.score \in 0..100
        /\ (scorer.pc = "compared") => scorer.richer_score \in 0..100
        /\ (scorer.content.len = 0 \/ LongWordIdx(scorer.query) = {}) =>
              scorer.score = (IF scorer.content.len > 200 THEN 20 ELSE 0)
        /\ (scorer.content.len = 0) => scorer.score = 0

C12_Witness ==
    /\ scorer.pc = "compared"
    /\ scorer.query # <<>>
    /\ LongWordIdx(scorer.query) = {}
    /\ scorer.score = 0
    /\ scorer.content.len = 200
    /\ scorer.richer_score = 20

\* C13: for a non-empty content and a query with a word longer than 2
\* characters the score is min(100, sum over the query words of
\* min(8 * occurrences, 25) + floor(30 * matched / total) + richness), with
\* richness 10 from 500 characters, 5 from 200, else 0; the words with 2 and 5
\* occurrences in 600 characters score 81, which takes the fast path.
C13_ScoreFormula ==
    (ScorerDone /\ scorer.content.len > 0 /\ LongWordIdx(scorer.query) # {}) =>
        LET c == scorer.content
            q == scorer.query
            long == LongWordIdx(q)
            matched == Cardinality({i \in long : c.occ[q[i]] > 0})
            richness == IF c.len >= 500 THEN 10 ELSE IF c.len >= 200 THEN 5 ELSE 0
        IN /\ scorer.score =
                 Min(100, SumPoints(c, q, long) + ((30 * matched) \div Cardinality(long))
                            + richness)
           /\ (q = <<1, 2>> /\ c.len = 600 /\ c.occ[1] = 2 /\ c.occ[2] = 5) =>
                 /\ scorer.score = 81
                 /\ FastPath(c, scorer.score)

C13_Witness ==
    /\ scorer.pc = "scored"
    /\ scorer.query = <<1, 2>>
    /\ scorer.content.len = 600
    /\ scorer.content.occ[1] = 2
    /\ scorer.content.occ[2] = 5
    /\ scorer.score = 81

\* C14: for a fixed query, a content with at least as many occurrences of
\* every query word, strictly more of some word, and at least the length,
\* scores at least as much.
C14_ScoreMonotone ==
    (scorer.pc = "compared" /\ Richer(scorer.content, scorer.richer)) =>
        scorer.richer_score >= scorer.score

C14_Witness ==
    /\ scorer.pc = "compared"
    /\ Richer(scorer.content, scorer.richer)
    /\ scorer.content.len = 200
    /\ scorer.richer.len = 500
    /\ Len(scorer.query) = 3
    /\ scorer.score > 20
    /\ scorer.richer_score = 100

LinkerDone == linker.pc = "returned"

\* The anchor of the page that a returned URL was discovered by: the first
\* one, special hrefs and other hosts aside, whose href resolves to it once
\* query string and fragment are stripped
DiscoveryPos(u) ==
    LET A == linker.resp.anchors
        hits == {i \in 1..Len(A) : /\ ~A[i].special
                                   /\ Netloc(A[i].url) = Netloc(linker.base_url)
                                   /\ CleanUrl(A[i].url) = u}
    IN CHOOSE i \in hits : \A j \in hits : i <= j

RECURSIVE SumLinkPoints(_, _, _, _)
SumLinkPoints(a, u, q, idxs) ==
    IF idxs = {} THEN 0
    ELSE LET i == CHOOSE j \in idxs : TRUE IN
         (IF q[i] \in PathWords(u) THEN 30 + 20
          ELSE IF q[i] \in a.text THEN 30 ELSE 0)
         + SumLinkPoints(a, u, q, idxs \ {i})

\* C15: every URL the link scorer returns has the host of the page URL and
\* holds none of the exclusion terms, whatever anchors the page carries.
C15_SameHostNoExcludedTerm ==
    LinkerDone =>
        \A k \in 1..Len(linker.links) :
            /\ Netloc(linker.links[k][1]) = Netloc(linker.base_url)
            /\ linker.links[k][1] # "login"

C15_Witness ==
    /\ LinkerDone
    /\ \E i, j \in 1..Len(linker.resp.anchors) :
          /\ linker.resp.anchors[i].url = "login"
          /\ linker.resp.anchors[j].url = "ext"
    /\ Len(linker.links) = 1
    /\ linker.query # <<>>

\* C16: no URL the link scorer returns equals the page URL once query string
\* and fragment are stripped from both, also for a page URL that carries a
\* query string itself.
C16_NeverReturnsOwnPage ==
    LinkerDone =>
        \A k \in 1..Len(linker.links) :
            CleanUrl(linker.links[k][1]) # CleanUrl(linker.base_url)

\* C17: the list returned holds no link of score 0 and no URL twice, is in
\* non-increasing order of score with equal scores in the order of discovery
\* on the page, and is empty when the fetch of the page failed.
C17_SortedStableDistinct ==
    LinkerDone =>
        LET L == linker.links IN
        /\ \A i \in 1..Len(L) : L[i][2] > 0
        /\ \A i, j \in 1..Len(L) :
              (i < j) => /\ L[i][1] # L[j][1]
                         /\ L[i][2] >= L[j][2]
                         /\ (L[i][2] = L[j][2]) =>
                               DiscoveryPos(L[i][1]) < DiscoveryPos(L[j][1])
        /\ ~linker.resp.ok => L = <<>>

C17_Witness ==
    /\ LinkerDone
    /\ Len(linker.links) = 3
    /\ linker.links[1][2] > linker.links[2][2]
    /\ linker.links[2][2] = linker.links[3][2]
    /\ DiscoveryPos(linker.links[1][1]) = 2

\* C18: a link whose URL path holds a query word longer than 2 characters
\* that its anchor text lacks gets 30 + 20 = 50 points for the word (as it
\* does with the word in both, and 30 with the word in the text only), plus
\* 10 for each high-value term in the anchor text or the URL path.
C18_PathWordScores50 ==
    LinkerDone =>
        \A k \in 1..Len(linker.links) :
            LET u == linker.links[k][1]
                a == linker.resp.anchors[DiscoveryPos(u)]
            IN linker.links[k][2] =
                 SumLinkPoints(a, u, linker.query, LongWordIdx(linker.query)) + 10 * a.imp

C18_Witness ==
    /\ LinkerDone
    /\ linker.query = <<1, 3>>
    /\ \E k \in 1..Len(linker.links) :
          /\ linker.links[k] = <<"b", 60>>
          /\ linker.resp.anchors[DiscoveryPos("b")].text = {}
          /\ linker.resp.anchors[DiscoveryPos("b")].imp = 1

\* C19: strategy 2 is attempted exactly when the characters strategy 1
\* extracted, summed over the pages, are fewer than 200, and strategy 3 exactly
\* when strategy 2 was attempted and its sum is below 200 as well; the
\* strategies run while the temporary file exists (pages of 50, 80 and 5
\* characters, 135 in all, lead to strategy 2).
C19_FallbackBelow200 ==
    /\ (pdfx.pc \in {"strategy2", "strategy3", "remove"}) =>
          ((pdfx.pc = "strategy2" \/ 2 \in pdfx.tried)
             <=> Total(pdfx.texts[1]) < LOW_CONTENT_CHARS)
    /\ (pdfx.pc \in {"strategy3", "remove"}) =>
          ((pdfx.pc = "strategy3" \/ 3 \in pdfx.tried)
             <=> (2 \in pdfx.tried /\ Total(pdfx.texts[2]) < LOW_CONTENT_CHARS))
    /\ (pdfx.pc # "none") => pdfx.with_file

\* C20: the temporary file is gone when _extract_pdf_from_url_advanced has
\* returned, by whichever exit: a document, a PDF that is not extractable, an
\* exception while a strategy parses the file.
C20_TempFileRemoved ==
    (pdfx.pc = "returned") => ~pdfx.tmp_exists

\* C11: when two calls made through get_extractor() run with their steps
\* interleaved, the visited set and the PDF list a call sees hold only URLs
\* this call visited or discovered, and the call does what it does alone: it
\* requests its start page, and returns "not found" only when its own
\* requests found nothing.
C11_SessionsIsolated ==
    \A c \in Callers :
        /\ (frames[c].pc # "idle") =>
              /\ visited_urls \subseteq frames[c].own
              /\ SeqToSet(pdf_links) \subseteq frames[c].ownPdfs
        /\ (frames[c].pc \in {"links", "loop", "returned"}) => frames[c].startRequests >= 1
        /\ (frames[c].pc = "returned") =>
              SeqToSet(frames[c].result.pdfs) \subseteq frames[c].ownPdfs

\* C23: when the start page does not take the fast path (it scores below 60)
\* and either deep_crawl is false or the scored link list is empty, the call
\* returns the start page's result -- the start URL with the start page's
\* content, or "not found" when that content is empty -- and no internal page
\* was fetched; with deep_crawl false the link scoring was not invoked.
C23_SinglePageResult ==
    (/\ pc = "returned"
     /\ ~FastPath(main_content, StartScore)
     /\ (~deep_crawl \/ (linkScoring /\ internal_links = <<>>)))
    => /\ exitKind \in {"nodeep", "nolinks"}
       /\ loopFetches = 0
       /\ result.url = url
       /\ result.notFound = IsEmpty(main_content)
       /\ ~result.notFound => result.content = main_content
       /\ ~deep_crawl => (exitKind = "nodeep" /\ ~linkScoring)

\* A start page with content and a score below 60, returned without deep crawl
C23_Witness ==
    /\ pc = "returned"
    /\ ~deep_crawl
    /\ ~IsEmpty(main_content)
    /\ ~FastPath(main_content, StartScore)
    /\ exitKind = "nodeep"
    /\ ~result.notFound
    /\ result.content = main_content
    /\ loopFetches = 0

\* C25: in the content score the keyword points added for any one distinct
\* query word are at most 25, for every query, a query that repeats a word
\* included.
C25_WordPointsAtMost25 ==
    ScorerDone => \A w \in Words : scorer.by_word[w] <= 25

\* The strategy that ran last, and the page texts it extracted
LastStrategy == pdfx.order[Len(pdfx.order)]

LastTexts == pdfx.texts[LastStrategy]

\* C21: when every page's trimmed extracted text is shorter than 20
\* characters after the strategies have run (a scanned PDF whose pages are all
\* "empty or image"), the extractor returns the "detected but not extractable"
\* message, not a document.
C21_ShortPagesNotExtractable ==
    (/\ pdfx.pc = "returned"
     /\ pdfx.result \in {"document", "not extractable"}
     /\ \A i \in 1..Len(LastTexts) : LastTexts[i] < MIN_USABLE_PAGE)
    => pdfx.result = "not extractable"

\* The pages a strategy returns for the texts it extracted
PagesOf(k) ==
    CASE k = 1 -> Strategy1Pages(pdfx.texts[1])
      [] k = 2 -> Strategy2Pages([raised |-> FALSE, texts |-> pdfx.texts[2]])
      [] k = 3 -> Strategy3Pages(pdfx.texts[3])

\* C24: the strategies are invoked in the order 1, 2, 3, each at most once,
\* strategy 3 never without strategy 2; the pages of the final result are the
\* pages of the one strategy that ran last, never a mix.
C24_FixedOrderNoMixing ==
    (pdfx.pc # "none") =>
        /\ pdfx.order \in {<<>>, <<1>>, <<1, 2>>, <<1, 2, 3>>}
        /\ (pdfx.pc \in {"remove", "returned"} /\ pdfx.order # <<>>
             /\ pdfx.result # "extraction impossible")
           => pdfx.pages_content = PagesOf(LastStrategy)

C24_Witness ==
    /\ pdfx.pc = "returned"
    /\ pdfx.result = "document"
    /\ pdfx.order = <<1, 2, 3>>
    /\ pdfx.texts[1] # <<>>
    /\ pdfx.texts[2] # <<>>
    /\ Len(pdfx.pages_content) = 2
    /\ pdfx.pages_content = Strategy3Pages(pdfx.texts[3])

\* C27: strategy 1 returns one entry per page of the document, in page order
\* and numbered 1..n; a page without text elements or with a text of 10
\* characters or less yields an "empty or image" entry, so the number of
\* entries is the page count.
C27_OneEntryPerPage ==
    (pdfx.pc # "none") =>
        /\ Len(pdfx.entries) = Len(pdfx.texts[1])
        /\ \A i \in 1..Len(pdfx.entries) :
              /\ pdfx.entries[i].page_num = i
              /\ pdfx.entries[i].empty = (pdfx.texts[1][i] <= MIN_PAGE_TEXT)
              /\ (pdfx.order = <<1>>) => pdfx.entries[i].len = pdfx.pages_content[i]

C27_Witness ==
    /\ pdfx.order = <<1>>
    /\ pdfx.pc = "remove"
    /\ Len(pdfx.texts[1]) = 3
    /\ pdfx.texts[1][1] = 0
    /\ pdfx.texts[1][2] = 80
    /\ pdfx.texts[1][3] = 5
    /\ Len(pdfx.entries) = 3
    /\ pdfx.entries[1].empty /\ ~pdfx.entries[2].empty /\ pdfx.entries[3].empty

\* The calls of _extract_pdf_from_url_advanced the page extraction made: every
\* request after the request of the page itself
PdfExtractorCalls == Len(pager.page.reqs) - 1

\* C28: while one HTML page is extracted with PDF extraction enabled, the PDF
\* extractor is invoked for at most 3 of the PDF links of the page, however
\* many links there are and whatever each extraction gives.
C28_AtMostThreeExtractions ==
    (pager.pc = "returned" /\ pager.extract_pdf_content) =>
        PdfExtractorCalls <= MAX_PDF_EXTRACT

CleanerDone == cleaner.pc \in {"cleaned", "recleaned"}

\* The lines with text that are neither source annotations nor dividers
TextLines(lines) ==
    SelectSeq(lines, LAMBDA t : ~IsBlank(t) /\ ~IsSourceLine(t) /\ ~IsDivider(t))

\* A long line identical to an earlier line is dropped
RECURSIVE KeepFirstIdentical(_)
KeepFirstIdentical(lines) ==
    IF lines = <<>> THEN <<>>
    ELSE LET front == SubSeq(lines, 1, Len(lines) - 1)
             t == lines[Len(lines)]
         IN IF StrippedLen(t) > 50 /\ Contains(front, t)
            THEN KeepFirstIdentical(front)
            ELSE Append(KeepFirstIdentical(front), t)

\* A long line is dropped when an earlier long line is the same but for the
\* case of its letters
RECURSIVE KeepFirstIgnoringCase(_)
KeepFirstIgnoringCase(lines) ==
    IF lines = <<>> THEN <<>>
    ELSE LET front == SubSeq(lines, 1, Len(lines) - 1)
             t == lines[Len(lines)]
         IN IF StrippedLen(t) > 50 /\ (Contains(front, "l") \/ Contains(front, "L"))
            THEN KeepFirstIgnoringCase(front)
            ELSE Append(KeepFirstIgnoringCase(front), t)

\* The short lines of a content and the copies of the long line t
ShortAnd(t, lines) ==
    SelectSeq(TextLines(lines), LAMBDA x : StrippedLen(x) <= 50 \/ x = t)

Count(lines, t) == Cardinality({i \in 1..Len(lines) : lines[i] = t})

ConsecutiveBlanks(lines) ==
    \E i \in 1..(Len(lines) - 1) : IsBlank(lines[i]) /\ IsBlank(lines[i + 1])

\* C26: the output of _clean_content has no two consecutive blank lines
\* (empty or whitespace-only), no source annotation line and no divider line,
\* for every input.
C26_NoBlankRunsNoMarkers ==
    CleanerDone =>
        /\ ~ConsecutiveBlanks(cleaner.once)
        /\ \A i \in 1..Len(cleaner.once) :
              ~IsSourceLine(cleaner.once[i]) /\ ~IsDivider(cleaner.once[i])

\* C29: _clean_content is idempotent: cleaning a cleaned content gives the
\* same content.
C29_CleanIdempotent ==
    (cleaner.pc = "recleaned") => cleaner.twice = cleaner.once

====
